---- MODULE Spec2Model ----
(***************************************************************************)
(* The input-method session of chewingwl (src/src/main.rs): the struct     *)
(* InputMethod, its constructor and its message handler                    *)
(* InputMethod::update, together with an abstract model of the chewing     *)
(* editor the session drives through `self.chewing`.                       *)
(*                                                                         *)
(* Strings are modelled by what the session reads of them: a text is the   *)
(* sequence of the UTF-8 byte widths of its code points, and a candidate   *)
(* is identified by its flat index in the engine's list, so `candidates`   *)
(* is the length of the list and a page is a half-open range <<lo, hi>> of *)
(* flat indices.                                                           *)
(***************************************************************************)
EXTENDS Integers, Sequences, FiniteSets, TLC

VARIABLES
    page,              \* InputMethod.page
    index,             \* InputMethod.index
    chewing,           \* InputMethod.chewing: the editor's state
    state,             \* InputMethod.state
    candidates,        \* InputMethod.candidates (its length)
    current_preedit,   \* InputMethod.current_preedit
    cursor_position,   \* InputMethod.cursor_position
    preedit_len,       \* InputMethod.preedit_len
    pages,             \* InputMethod.pages
    popup,             \* InputMethod.popup
    passthrough_mode,  \* InputMethod.passthrough_mode
    ev,                \* the message the last call of update handled
    actions,           \* the Command the last call of update returned
    calls,             \* the editor calls the last call of update made
    crashed,           \* a handler panicked: the process is gone
    popup_visible,     \* the host shows the popup surface
    shift_armed,       \* Shift is down and no other key was pressed since
    held               \* the key followed: is it down, does the host hold it

vars == <<page, index, chewing, state, candidates, current_preedit,
          cursor_position, preedit_len, pages, popup, passthrough_mode,
          ev, actions, calls, crashed, popup_visible, shift_armed, held>>

session == <<page, index, state, candidates, current_preedit,
             cursor_position, preedit_len, pages, popup, passthrough_mode>>

-----------------------------------------------------------------------------
(* Bounds of the model *)

MaxBuf == 1      \* code points the editor's display buffer holds at most
MaxSyl == 1      \* symbols the editor's syllable buffer holds at most
MaxCand == 23    \* candidates the editor offers at most in one batch
MaxIndex == 11   \* cap of `index` where a wrapped bound lets it grow
MaxText == 3     \* code points of the longest text of any widths
MaxList == 75    \* candidates of the longest list the popup is opened on

(* Program constants *)

max_candidates == 10
max_pages == 4

States == {"PreEdit", "Popup", "WaitingForDone", "PassThrough"}

Min(a, b) == IF a < b THEN a ELSE b

-----------------------------------------------------------------------------
(* Keys, as update distinguishes them *)

Digits == {"1", "2", "3", "4", "5", "6", "7", "8", "9", "0"}

NamedKeys == {"Backspace", "Space", "Enter", "Escape", "Delete", "ArrowLeft",
              "ArrowRight", "ArrowDown", "ArrowUp", "Tab", "Shift"}

\* "Char" is any other Key::Character, "Other" a key that is neither named
\* above nor carries text (Control, F1, ...).
Keys == Digits \cup NamedKeys \cup {"Char", "Other"}

\* key_event.utf8.as_ref().and_then(|s| s.chars().last()) is Some: character
\* keys carry their text, and so do the control keys with an ASCII code.
HasUtf8(key) ==
    key \in Digits \cup {"Char", "Space", "Enter", "Backspace", "Tab",
                         "Escape", "Delete"}

-----------------------------------------------------------------------------
(* The chewing editor, as far as the session observes it.                  *)
(*   display          the composed text, one entry per code point          *)
(*   cursor           the code-point cursor in display                     *)
(*   syllable_buffer  the number of phonetic symbols being entered         *)
(*   selecting        the editor is in candidate selection                 *)
(*   ncand            the length of all_candidates() while selecting       *)

\* Byte widths of the code points the editor puts in its buffers: bopomofo
\* symbols and CJK ideographs, 3 bytes each in UTF-8.
EngineWidths == {3}

RECURSIVE ByteLen(_)
ByteLen(s) == IF s = <<>> THEN 0 ELSE Head(s) + ByteLen(Tail(s))

InsertAt(s, k, w) == SubSeq(s, 1, k) \o <<w>> \o SubSeq(s, k + 1, Len(s))

RemoveAt(s, k) == SubSeq(s, 1, k - 1) \o SubSeq(s, k + 1, Len(s))

\* The lengths of the candidate lists the editor offers: one partial page,
\* and the longest list.
BatchSizes == {3, MaxCand}

EmptyEditor ==
    [display |-> <<>>, cursor |-> 0, syllable_buffer |-> 0,
     selecting |-> FALSE, ncand |-> 0]

\* The editor leaves candidate selection (a choice was made or cancelled).
LeaveSelecting(e) == [e EXCEPT !.selecting = FALSE, !.ncand = 0]

\* A key that can add text: it is absorbed, extends the syllable, or
\* completes a code point that is inserted at the cursor.
EngineText(e) ==
    {e}
    \cup (IF e.syllable_buffer < MaxSyl
          THEN {[e EXCEPT !.syllable_buffer = @ + 1]} ELSE {})
    \cup (IF Len(e.display) < MaxBuf
          THEN {[e EXCEPT !.display = InsertAt(e.display, e.cursor, w),
                          !.cursor = @ + 1, !.syllable_buffer = 0] :
                  w \in EngineWidths}
          ELSE {})

\* Editor::process_keyevent(keyboard.map(code)): the states the editor can
\* be in afterwards.
EngineKey(e, code) ==
    IF e.selecting THEN
        CASE code = "Down" -> {[e EXCEPT !.ncand = n] : n \in BatchSizes}
          [] code = "Esc" -> {LeaveSelecting(e)}
          [] OTHER -> {e, LeaveSelecting(e)}
    ELSE
        CASE code \in {"Ascii", "Space", "ShiftSpace"} -> EngineText(e)
          [] code = "Backspace" ->
                IF e.syllable_buffer > 0
                THEN {[e EXCEPT !.syllable_buffer = @ - 1]}
                ELSE IF e.cursor > 0
                THEN {[e EXCEPT !.display = RemoveAt(e.display, e.cursor),
                                !.cursor = @ - 1]}
                ELSE {e}
          [] code = "Del" ->
                IF e.syllable_buffer = 0 /\ e.cursor < Len(e.display)
                THEN {[e EXCEPT !.display = RemoveAt(e.display, e.cursor + 1)]}
                ELSE {e}
          [] code = "Left" ->
                IF e.syllable_buffer = 0 /\ e.cursor > 0
                THEN {[e EXCEPT !.cursor = @ - 1]} ELSE {e}
          [] code = "Right" ->
                IF e.syllable_buffer = 0 /\ e.cursor < Len(e.display)
                THEN {[e EXCEPT !.cursor = @ + 1]} ELSE {e}
          [] code = "Esc" ->
                IF e.syllable_buffer > 0
                THEN {[e EXCEPT !.syllable_buffer = 0]}
                ELSE {e, EmptyEditor}
          [] code = "Enter" ->
                IF e.syllable_buffer > 0 THEN {e, EmptyEditor}
                ELSE {EmptyEditor}
          [] code = "Down" ->
                IF e.syllable_buffer = 0 /\ Len(e.display) > 0
                THEN {e} \cup {[e EXCEPT !.selecting = TRUE, !.ncand = n] :
                                 n \in BatchSizes}
                ELSE {e}
          [] OTHER -> {e}

\* Editor::select(n): Ok iff the editor is selecting and n is in range.
SelectOk(e, n) == e.selecting /\ n < e.ncand

EngineSelect(e, n) == IF SelectOk(e, n) THEN LeaveSelecting(e) ELSE e

\* Editor::all_candidates().unwrap_or_default(), as its length.
AllCandidates(e) == IF e.selecting THEN e.ncand ELSE 0

\* Editor::total_page() is Ok only while selecting; the editor pages its
\* list by 10 (its default candidates_per_page).
TotalPageOk(e) == e.selecting

TotalPage(e) == (e.ncand + 9) \div 10

-----------------------------------------------------------------------------
(* Chewing::preedit *)

SyllableText(e) == [i \in 1..e.syllable_buffer |-> 3]

\* b1.split_off(cursor * 3) panics unless cursor * 3 is a code-point
\* boundary of the display text (its end included).
PreeditPanics(e) ==
    ~ \E k \in 0..Len(e.display) :
          ByteLen(SubSeq(e.display, 1, k)) = e.cursor * 3

Preedit(e) ==
    LET k == CHOOSE k \in 0..Len(e.display) :
                 ByteLen(SubSeq(e.display, 1, k)) = e.cursor * 3
    IN  SubSeq(e.display, 1, k) \o SyllableText(e)
            \o SubSeq(e.display, k + 1, Len(e.display))

-----------------------------------------------------------------------------
(* Host actions (the Commands update returns) and the log of editor calls *)

SetPreeditString(text, cursor) == <<"SetPreeditString", text, cursor, cursor>>
Commit == <<"Commit">>
CommitString(text) == <<"CommitString", text>>
ShowPopup == <<"ShowPopup">>
HidePopup == <<"HidePopup">>
\* The key event forwarded is the one received; it is not told apart here.
VKKeyPressed(key) == <<"KeyPressed">>
VKKeyReleased(key) == <<"KeyReleased">>
VKModifiers == <<"Modifiers">>

CallKey(code) == <<"process_keyevent", code>>
\* select(n), with whether the editor then holds it Ok.
CallSelect(n) == <<"select", n, SelectOk(chewing, n)>>
CallPreedit == <<"preedit">>
CallCursor == <<"cursor">>
CallAllCandidates == <<"all_candidates">>
CallTotalPage == <<"total_page">>

\* The arm of `match key` a pressed key is handled by in each state: keys
\* one arm handles alike are not told apart.
KeyArm(key, shift) ==
    CASE state = "PreEdit" ->
            IF key = "Space" /\ shift THEN "ShiftSpace"
            ELSE IF key \in NamedKeys \ {"Shift"} THEN key
            ELSE IF HasUtf8(key) THEN "utf8" ELSE "_"
      [] state = "Popup" ->
            IF key \in Digits \cup {"ArrowDown", "ArrowUp", "ArrowLeft",
                                    "ArrowRight", "Enter", "Escape"}
            THEN key ELSE "_"
      [] state = "WaitingForDone" -> "_"
      [] state = "PassThrough" ->
            IF key = "Shift" THEN "Shift"
            ELSE IF HasUtf8(key) THEN "utf8" ELSE "_"

\* What is recorded of a message: its variant, the arm that handled its
\* key, and the state it was received in.
Event(type, arm) == [type |-> type, arm |-> arm, from |-> state]

\* show_input_method_popup / hide_input_method_popup, as the host obeys them.
Shown(visible, acts) ==
    IF \E k \in 1..Len(acts) : acts[k] = HidePopup THEN FALSE
    ELSE IF \E k \in 1..Len(acts) : acts[k] = ShowPopup THEN TRUE
    ELSE visible

\* The handler returns: the editor is left in e, the Command is acts.
Return(e, acts, cls) ==
    /\ chewing' = e
    /\ actions' = acts
    /\ calls' = cls
    /\ crashed' = FALSE
    /\ popup_visible' = Shown(popup_visible, acts)

\* The handler panics: the process aborts.
Panic ==
    /\ crashed' = TRUE
    /\ actions' = <<>>
    /\ calls' = <<>>
    /\ UNCHANGED <<session, chewing, popup_visible>>

\* The key whose presses and releases are followed from the host's side:
\* `down` while the user holds it (its press was delivered, its release not
\* yet), `host` while the host holds it (its press was forwarded, its
\* release not yet). No key is followed where key is "none".
NotFollowed == [key |-> "none", down |-> FALSE, host |-> FALSE]

\* A press of `key` was handled and the handler returned acts.
Pressed(key, acts) ==
    IF key = held.key
    THEN [held EXCEPT !.down = TRUE,
                      !.host = @ \/ \E i \in 1..Len(acts) :
                                       acts[i] = VKKeyPressed(key)]
    ELSE held

\* A release of `key` was handled and the handler returned acts.
Released(key, acts) ==
    IF key = held.key
    THEN [held EXCEPT !.down = FALSE,
                      !.host = @ /\ ~ \E i \in 1..Len(acts) :
                                        acts[i] = VKKeyReleased(key)]
    ELSE held

\* vec![self.candidates[0..min(self.max_candidates, self.candidates.len())]]
FirstPage(n) == << <<0, Min(max_candidates, n)>> >>

-----------------------------------------------------------------------------
(* InputMethod::new *)

Init ==
    /\ page = 0
    /\ index = 0
    /\ chewing = EmptyEditor
    /\ state = "PassThrough"
    /\ candidates = 0
    /\ current_preedit = <<>>
    /\ cursor_position = 0
    /\ preedit_len = 0
    /\ pages = <<>>
    /\ popup = FALSE
    /\ passthrough_mode = FALSE
    /\ ev = [type |-> "New", arm |-> "_", from |-> "PassThrough"]
    /\ actions = <<>>
    /\ calls = <<>>
    /\ crashed = FALSE
    /\ popup_visible = FALSE
    /\ shift_armed = FALSE
    /\ held = NotFollowed

-----------------------------------------------------------------------------
(* InputMethod::preedit_string, commit_string, open_popup; e is the editor *)
(* as the caller left it, cls the calls the caller made before.            *)

preedit_string(e, cls) ==
    IF PreeditPanics(e) THEN Panic
    ELSE
        /\ preedit_len' = ByteLen(Preedit(e))
        /\ current_preedit' = Preedit(e)
        /\ state' = "WaitingForDone"
        /\ cursor_position' = e.cursor * 3
        /\ UNCHANGED <<page, index, candidates, pages, popup,
                       passthrough_mode>>
        /\ Return(e, <<SetPreeditString(Preedit(e), e.cursor * 3), Commit>>,
                  cls \o <<CallPreedit, CallCursor>>)

commit_string(e, cls) ==
    IF PreeditPanics(e) THEN Panic
    ELSE \E e2 \in EngineKey(e, "Enter") :
        /\ state' = "PassThrough"
        /\ UNCHANGED <<page, index, candidates, current_preedit,
                       cursor_position, preedit_len, pages, popup,
                       passthrough_mode>>
        /\ Return(e2, <<CommitString(Preedit(e)), Commit>>,
                  cls \o <<CallPreedit, CallKey("Enter")>>)

\* Mutant: the popup opens on the page and index of the previous popup.
open_popup_keeps_position(e, cls) ==
    \E e2 \in EngineKey(e, "Down") :
        /\ candidates' = AllCandidates(e2)
        /\ state' = "WaitingForDone"
        /\ popup' = TRUE
        /\ cursor_position' = e2.cursor * 3
        /\ pages' = FirstPage(AllCandidates(e2))
        /\ UNCHANGED <<page, index, current_preedit, preedit_len,
                       passthrough_mode>>
        /\ Return(e2, <<SetPreeditString(Preedit(e), e2.cursor * 3), Commit>>,
                  cls \o <<CallPreedit, CallKey("Down"), CallAllCandidates,
                           CallCursor>>)

open_popup(e, cls) ==
    IF PreeditPanics(e) THEN Panic
    ELSE \E e2 \in EngineKey(e, "Down") :
        /\ candidates' = AllCandidates(e2)
        /\ state' = "WaitingForDone"
        /\ popup' = TRUE
        /\ cursor_position' = e2.cursor * 3
        /\ index' = 0
        /\ page' = 0
        /\ pages' = FirstPage(AllCandidates(e2))
        /\ UNCHANGED <<current_preedit, preedit_len, passthrough_mode>>
        /\ Return(e2, <<SetPreeditString(Preedit(e), e2.cursor * 3), Commit>>,
                  cls \o <<CallPreedit, CallKey("Down"), CallAllCandidates,
                           CallCursor>>)

\* Mutant: the selection leaves the popup flag set.
select_and_keep_popup(n) ==
    LET e2 == EngineSelect(chewing, n) IN
        /\ current_preedit' = Preedit(e2)
        /\ state' = "WaitingForDone"
        /\ cursor_position' = e2.cursor * 3
        /\ UNCHANGED <<page, index, candidates, preedit_len, pages, popup,
                       passthrough_mode>>
        /\ Return(e2, <<SetPreeditString(Preedit(e2), e2.cursor * 3), Commit,
                        HidePopup>>,
                  <<CallSelect(n), CallPreedit, CallCursor, CallPreedit>>)

\* The body the ten digit arms, the Enter arm of State::Popup and
\* Message::ClosePopup share: select flat index n and close the popup.
select_and_close(n) ==
    LET e2 == EngineSelect(chewing, n) IN
    IF PreeditPanics(e2) THEN Panic
    ELSE
        /\ current_preedit' = Preedit(e2)
        /\ state' = "WaitingForDone"
        /\ popup' = FALSE
        /\ cursor_position' = e2.cursor * 3
        /\ UNCHANGED <<page, index, candidates, preedit_len, pages,
                       passthrough_mode>>
        /\ Return(e2, <<SetPreeditString(Preedit(e2), e2.cursor * 3), Commit,
                        HidePopup>>,
                  <<CallSelect(n), CallPreedit, CallCursor, CallPreedit>>)

\* The Command::none() arms that touch nothing.
nothing ==
    /\ UNCHANGED session
    /\ Return(chewing, <<>>, <<>>)

-----------------------------------------------------------------------------
(* InputMethod::update, one action per message and, for KeyPressed, per    *)
(* arm of `match self.state`.                                              *)

Activate ==
    /\ ~crashed
    /\ ev' = Event("Activate", "_")
    /\ state' = "PassThrough"
    /\ UNCHANGED <<page, index, candidates, current_preedit, cursor_position,
                   preedit_len, pages, popup, passthrough_mode, shift_armed, held>>
    /\ Return(chewing, <<>>, <<>>)

\* Mutant: Deactivate handled like Activate (no escape, popup left shown).
DeactivateLikeActivate ==
    /\ ~crashed
    /\ ev' = Event("Deactivate", "_")
    /\ state' = "PassThrough"
    /\ UNCHANGED <<page, index, candidates, current_preedit, cursor_position,
                   preedit_len, pages, popup, passthrough_mode, shift_armed, held>>
    /\ Return(chewing, <<>>, <<>>)

Deactivate ==
    /\ ~crashed
    /\ ev' = Event("Deactivate", "_")
    /\ \E e2 \in EngineKey(chewing, "Esc") :
        /\ state' = "PassThrough"
        /\ UNCHANGED <<page, index, candidates, current_preedit,
                       cursor_position, preedit_len, pages, popup,
                       passthrough_mode, shift_armed, held>>
        /\ Return(e2, <<HidePopup>>, <<CallKey("Esc")>>)

\* The editor key code a named key of State::PreEdit is mapped to.
PreEditCode(key, shift) ==
    CASE key = "Backspace" -> "Backspace"
      [] key = "Space" -> IF shift THEN "ShiftSpace" ELSE "Space"
      [] key = "Escape" -> "Esc"
      [] key = "Delete" -> "Del"
      [] key = "ArrowLeft" -> "Left"
      [] key = "ArrowRight" -> "Right"
      [] key = "ArrowUp" -> "Up"
      [] key = "Tab" -> "Tab"
      [] OTHER -> "Ascii"

\* Mutant: Escape clears the editor without sending the pre-edit, and Tab is
\* not handled.
PreEditKeyEscapeSilent(key, shift) ==
    CASE key = "Enter" -> commit_string(chewing, <<>>)
      [] key = "ArrowDown" -> open_popup(chewing, <<>>)
      [] key = "Escape" ->
            \E e2 \in EngineKey(chewing, "Esc") :
                /\ UNCHANGED session
                /\ Return(e2, <<>>, <<CallKey("Esc")>>)
      [] key \in {"Backspace", "Space", "Delete", "ArrowLeft",
                  "ArrowRight", "ArrowUp"} \/ (HasUtf8(key) /\ key # "Tab") ->
            \E e2 \in EngineKey(chewing, PreEditCode(key, shift)) :
                preedit_string(e2, <<CallKey(PreEditCode(key, shift))>>)
      [] OTHER -> nothing

PreEditKey(key, shift) ==
    CASE key = "Enter" -> commit_string(chewing, <<>>)
      [] key = "ArrowDown" -> open_popup(chewing, <<>>)
      [] key \in {"Backspace", "Space", "Escape", "Delete", "ArrowLeft",
                  "ArrowRight", "ArrowUp", "Tab"} \/ HasUtf8(key) ->
            \E e2 \in EngineKey(chewing, PreEditCode(key, shift)) :
                preedit_string(e2, <<CallKey(PreEditCode(key, shift))>>)
      [] OTHER -> nothing

\* Mutant: the digit is taken as the slot itself ("1" is slot 1).
DigitSlotIsDigit(key) ==
    CASE key = "1" -> 1 [] key = "2" -> 2 [] key = "3" -> 3 [] key = "4" -> 4
      [] key = "5" -> 5 [] key = "6" -> 6 [] key = "7" -> 7 [] key = "8" -> 8
      [] key = "9" -> 9 [] key = "0" -> 0

\* The in-page slot a digit key selects: "1" is slot 0, "0" is slot 9.
DigitSlot(key) ==
    CASE key = "1" -> 0 [] key = "2" -> 1 [] key = "3" -> 2 [] key = "4" -> 3
      [] key = "5" -> 4 [] key = "6" -> 5 [] key = "7" -> 6 [] key = "8" -> 7
      [] key = "9" -> 8 [] key = "0" -> 9

PopupArrowDown ==
    LET bound == Min(candidates, max_candidates) IN
    IF bound = 0 THEN
        \* `bound - 1` underflows: a panic with overflow checks, usize::MAX
        \* without them, and then index < usize::MAX.
        \/ Panic
        \/ /\ index < MaxIndex
           /\ index' = index + 1
           /\ UNCHANGED <<page, state, candidates, current_preedit,
                          cursor_position, preedit_len, pages, popup,
                          passthrough_mode>>
           /\ Return(chewing, <<>>, <<>>)
    ELSE IF index < bound - 1 THEN
        /\ index' = index + 1
        /\ UNCHANGED <<page, state, candidates, current_preedit,
                       cursor_position, preedit_len, pages, popup,
                       passthrough_mode>>
        /\ Return(chewing, <<>>, <<>>)
    ELSE IF index = bound - 1 THEN
        \E e2 \in EngineKey(chewing, "Down") :
            /\ candidates' = AllCandidates(e2)
            /\ index' = 0
            /\ page' = 0
            /\ pages' = FirstPage(AllCandidates(e2))
            /\ UNCHANGED <<state, current_preedit, cursor_position,
                           preedit_len, popup, passthrough_mode>>
            /\ Return(e2, <<>>, <<CallKey("Down"), CallAllCandidates>>)
    ELSE nothing

\* Mutant: ArrowUp on the first candidate closes the popup.
PopupArrowUpCloses ==
    IF index > 0 THEN
        /\ index' = index - 1
        /\ UNCHANGED <<page, state, candidates, current_preedit,
                       cursor_position, preedit_len, pages, popup,
                       passthrough_mode>>
        /\ Return(chewing, <<>>, <<>>)
    ELSE
        /\ state' = "PreEdit"
        /\ popup' = FALSE
        /\ UNCHANGED <<page, index, candidates, current_preedit,
                       cursor_position, preedit_len, pages, passthrough_mode>>
        /\ Return(chewing, <<HidePopup>>, <<>>)

PopupArrowUp ==
    /\ index' = IF index > 0 THEN index - 1 ELSE index
    /\ UNCHANGED <<page, state, candidates, current_preedit, cursor_position,
                   preedit_len, pages, popup, passthrough_mode>>
    /\ Return(chewing, <<>>, <<>>)

\* Mutant: ArrowLeft on the first page wraps to the last page of the list.
PopupArrowLeftWraps ==
    /\ page' = IF page > 0 THEN page - 1
                ELSE IF candidates > 0
                THEN (candidates - 1) \div max_candidates ELSE 0
    /\ UNCHANGED <<index, state, candidates, current_preedit, cursor_position,
                   preedit_len, pages, popup, passthrough_mode>>
    /\ Return(chewing, <<>>, <<>>)

PopupArrowLeft ==
    /\ page' = IF page > 0 THEN page - 1 ELSE page
    /\ UNCHANGED <<index, state, candidates, current_preedit, cursor_position,
                   preedit_len, pages, popup, passthrough_mode>>
    /\ Return(chewing, <<>>, <<>>)

\* self.candidates[lo * max_candidates
\*                 ..min((lo + 1) * max_candidates, self.candidates.len())]
PageSlice(page_index) ==
    <<page_index * max_candidates,
      Min((page_index + 1) * max_candidates, candidates)>>

\* Mutant: ArrowRight stops at the last page of the first window.
PopupArrowRightStopsAtWindow ==
    IF ~TotalPageOk(chewing) THEN Panic
    ELSE
        LET num_pages == Min(TotalPage(chewing), max_pages) IN
        IF num_pages > 1 /\ page < num_pages - 1 THEN
            /\ pages' = [k \in 1..num_pages |-> PageSlice(k - 1)]
            /\ page' = page + 1
            /\ UNCHANGED <<index, state, candidates, current_preedit,
                           cursor_position, preedit_len, popup,
                           passthrough_mode>>
            /\ Return(chewing, <<>>, <<CallTotalPage>>)
        ELSE
            /\ UNCHANGED session
            /\ Return(chewing, <<>>, <<CallTotalPage>>)

PopupArrowRight ==
    IF ~TotalPageOk(chewing) THEN Panic     \* total_page().unwrap()
    ELSE
        LET num_pages == TotalPage(chewing) IN
        IF num_pages > 1 /\ page < num_pages - 1 THEN
            LET pages_index == page \div (max_pages - 1)
                min_pages == Min(num_pages, max_pages)
                first == pages_index * min_pages
                last == pages_index + 1 * min_pages    \* exclusive
                n == IF last > first THEN last - first ELSE 0
            IN  IF \E k \in 1..n :
                       PageSlice(first + k - 1)[1] > PageSlice(first + k - 1)[2]
                THEN Panic                  \* slice start past its end
                ELSE
                    /\ pages' = [k \in 1..n |-> PageSlice(first + k - 1)]
                    /\ page' = page + 1
                    /\ UNCHANGED <<index, state, candidates, current_preedit,
                                   cursor_position, preedit_len, popup,
                                   passthrough_mode>>
                    /\ Return(chewing, <<>>, <<CallTotalPage>>)
        ELSE
            /\ UNCHANGED session
            /\ Return(chewing, <<>>, <<CallTotalPage>>)

\* Mutant: the popup is hidden between the pre-edit and its Commit.
PopupEscapeHidesBeforeCommit ==
    \E e2 \in EngineKey(chewing, "Esc") :
        /\ state' = "PreEdit"
        /\ popup' = FALSE
        /\ cursor_position' = e2.cursor * 3
        /\ UNCHANGED <<page, index, candidates, current_preedit,
                       preedit_len, pages, passthrough_mode>>
        /\ Return(e2, <<SetPreeditString(Preedit(e2), e2.cursor * 3),
                        HidePopup, Commit>>,
                  <<CallKey("Esc"), CallCursor, CallPreedit>>)

PopupEscape ==
    \E e2 \in EngineKey(chewing, "Esc") :
        IF PreeditPanics(e2) THEN Panic
        ELSE
            /\ state' = "PreEdit"
            /\ popup' = FALSE
            /\ cursor_position' = e2.cursor * 3
            /\ UNCHANGED <<page, index, candidates, current_preedit,
                           preedit_len, pages, passthrough_mode>>
            /\ Return(e2, <<SetPreeditString(Preedit(e2), e2.cursor * 3),
                            Commit, HidePopup>>,
                      <<CallKey("Esc"), CallCursor, CallPreedit>>)

PopupKey(key) ==
    CASE key \in Digits ->
            select_and_close(page * max_candidates + DigitSlot(key))
      [] key = "ArrowDown" -> PopupArrowDown
      [] key = "ArrowUp" -> PopupArrowUp
      [] key = "ArrowLeft" -> PopupArrowLeft
      [] key = "ArrowRight" -> PopupArrowRight
      [] key = "Enter" -> select_and_close(page * max_candidates + index)
      [] key = "Escape" -> PopupEscape
      [] OTHER -> nothing

\* virtual_keyboard_action(VKActionInner::KeyPressed(key_event))
forward_key(key) ==
    /\ UNCHANGED session
    /\ Return(chewing, <<VKKeyPressed(key)>>, <<>>)

toggle_passthrough ==
    /\ passthrough_mode' = ~passthrough_mode
    /\ UNCHANGED <<page, index, state, candidates, current_preedit,
                   cursor_position, preedit_len, pages, popup>>
    /\ Return(chewing, <<>>, <<>>)

\* Mutant: a composing key is forwarded to the host as well.
PassThroughKeyAlsoForwarded(key) ==
    IF key = "Shift" THEN toggle_passthrough
    ELSE IF passthrough_mode \/ ~HasUtf8(key) THEN forward_key(key)
    ELSE \E e2 \in EngineKey(chewing, "Ascii") :
        /\ state' = IF Preedit(e2) = <<>> THEN state ELSE "WaitingForDone"
        /\ current_preedit' = Preedit(e2)
        /\ UNCHANGED <<page, index, candidates, cursor_position, preedit_len,
                       pages, popup, passthrough_mode>>
        /\ Return(e2, <<VKKeyPressed(key)>>, <<CallKey("Ascii"), CallPreedit>>)

PassThroughKey(key) ==
    IF passthrough_mode THEN
        IF key = "Shift" THEN toggle_passthrough ELSE forward_key(key)
    ELSE IF key = "Shift" THEN toggle_passthrough
    ELSE IF HasUtf8(key) THEN
        \E e2 \in EngineKey(chewing, "Ascii") :
            IF PreeditPanics(e2) THEN Panic
            ELSE IF Preedit(e2) = <<>> THEN
                /\ passthrough_mode' = TRUE
                /\ UNCHANGED <<page, index, state, candidates,
                               current_preedit, cursor_position, preedit_len,
                               pages, popup>>
                /\ Return(e2, <<VKKeyPressed(key)>>,
                          <<CallKey("Ascii"), CallPreedit>>)
            ELSE preedit_string(e2, <<CallKey("Ascii"), CallPreedit>>)
    ELSE forward_key(key)

\* Mutant: a key typed while waiting is handled as in State::PreEdit.
WaitingForDoneKeyProcessed(key) == PreEditKey(key, FALSE)

WaitingForDoneKey(key) == nothing

\* The key events of the model: one key for each arm of the state's
\* `match key`, every key where no arm reads it, and Space with and without
\* modifiers.shift (which is read for Space only).
PressKeys ==
    CASE state = "PreEdit" -> NamedKeys \cup {"Char", "Other"}
      [] state = "Popup" ->
            Digits \cup {"ArrowDown", "ArrowUp", "ArrowLeft", "ArrowRight",
                         "Enter", "Escape", "Shift", "Other"}
      [] state = "WaitingForDone" -> Keys
      [] state = "PassThrough" -> {"Shift", "Char", "Enter", "ArrowDown", "Other"}

ReleaseKeys == {"Shift", "Char", "Enter", "Other"}

KeyEvents(keys) ==
    {<<key, shift>> \in keys \X BOOLEAN : shift => key = "Space"}

KeyPressedPreEdit ==
    /\ ~crashed
    /\ state = "PreEdit"
    /\ \E k \in KeyEvents(PressKeys) :
        /\ ev' = Event("KeyPressed", KeyArm(k[1], k[2]))
        /\ shift_armed' = (k[1] = "Shift")
        /\ PreEditKey(k[1], k[2])
        /\ held' = Pressed(k[1], actions')

KeyPressedPopup ==
    /\ ~crashed
    /\ state = "Popup"
    /\ \E k \in KeyEvents(PressKeys) :
        /\ ev' = Event("KeyPressed", KeyArm(k[1], k[2]))
        /\ shift_armed' = (k[1] = "Shift")
        /\ PopupKey(k[1])
        /\ held' = Pressed(k[1], actions')

KeyPressedWaitingForDone ==
    /\ ~crashed
    /\ state = "WaitingForDone"
    /\ \E k \in KeyEvents(PressKeys) :
        /\ ev' = Event("KeyPressed", KeyArm(k[1], k[2]))
        /\ shift_armed' = (k[1] = "Shift")
        /\ WaitingForDoneKey(k[1])
        /\ held' = Pressed(k[1], actions')

KeyPressedPassThrough ==
    /\ ~crashed
    /\ state = "PassThrough"
    /\ \E k \in KeyEvents(PressKeys) :
        /\ ev' = Event("KeyPressed", KeyArm(k[1], k[2]))
        /\ shift_armed' = (k[1] = "Shift")
        /\ PassThroughKey(k[1])
        /\ held' = Pressed(k[1], actions')

ReleasedKey(key) ==
    IF state = "PassThrough" THEN
        /\ UNCHANGED session
        /\ Return(chewing, <<VKKeyReleased(key)>>, <<>>)
    ELSE nothing

KeyReleased ==
    /\ ~crashed
    /\ \E k \in KeyEvents(ReleaseKeys) :
        /\ ev' = Event("KeyReleased", IF k[1] = "Shift" THEN "Shift" ELSE "_")
        /\ k[1] = held.key => held.down
        /\ shift_armed' = IF k[1] = "Shift" THEN FALSE ELSE shift_armed
        /\ ReleasedKey(k[1])
        /\ held' = Released(k[1], actions')

Modifiers ==
    /\ ~crashed
    /\ ev' = Event("Modifiers", "_")
    /\ UNCHANGED <<session, shift_armed, held>>
    /\ Return(chewing, <<VKModifiers>>, <<>>)

\* Mutant: a Done with no popup to show and no pre-edit text is ignored.
DoneHandlerIgnoresEmpty ==
    IF state = "WaitingForDone" /\ (popup \/ current_preedit # <<>>) THEN
        /\ state' = IF popup THEN "Popup" ELSE "PreEdit"
        /\ UNCHANGED <<page, index, candidates, current_preedit,
                       cursor_position, preedit_len, pages, popup,
                       passthrough_mode>>
        /\ Return(chewing, IF popup THEN <<ShowPopup>> ELSE <<>>, <<>>)
    ELSE nothing

\* Mutant: the pre-edit is tested before the popup flag.
DoneHandlerPreeditFirst ==
    IF state = "WaitingForDone" THEN
        /\ state' = IF current_preedit # <<>> THEN "PreEdit"
                     ELSE IF popup THEN "Popup" ELSE "PassThrough"
        /\ UNCHANGED <<page, index, candidates, current_preedit,
                       cursor_position, preedit_len, pages, popup,
                       passthrough_mode>>
        /\ Return(chewing, IF current_preedit = <<>> /\ popup
                           THEN <<ShowPopup>> ELSE <<>>, <<>>)
    ELSE nothing

\* Mutant: a Done received in State::Popup asks for the popup again.
DoneHandlerShowsAgain ==
    IF state \in {"WaitingForDone", "Popup"} THEN
        /\ state' = IF popup \/ state = "Popup" THEN "Popup"
                     ELSE IF current_preedit # <<>> THEN "PreEdit"
                     ELSE "PassThrough"
        /\ UNCHANGED <<page, index, candidates, current_preedit,
                       cursor_position, preedit_len, pages, popup,
                       passthrough_mode>>
        /\ Return(chewing, IF popup \/ state = "Popup"
                           THEN <<ShowPopup>> ELSE <<>>, <<>>)
    ELSE nothing

DoneHandler ==
    IF state = "WaitingForDone" THEN
        IF popup THEN
            /\ state' = "Popup"
            /\ UNCHANGED <<page, index, candidates, current_preedit,
                           cursor_position, preedit_len, pages, popup,
                           passthrough_mode>>
            /\ Return(chewing, <<ShowPopup>>, <<>>)
        ELSE IF current_preedit # <<>> THEN
            /\ state' = "PreEdit"
            /\ UNCHANGED <<page, index, candidates, current_preedit,
                           cursor_position, preedit_len, pages, popup,
                           passthrough_mode>>
            /\ Return(chewing, <<>>, <<>>)
        ELSE
            /\ state' = "PassThrough"
            /\ UNCHANGED <<page, index, candidates, current_preedit,
                           cursor_position, preedit_len, pages, popup,
                           passthrough_mode>>
            /\ Return(chewing, <<>>, <<>>)
    ELSE nothing

Done ==
    /\ ~crashed
    /\ ev' = Event("Done", "_")
    /\ UNCHANGED <<shift_armed, held>>
    /\ DoneHandler

\* InputMethod::view: the selection fields drawn, as the <<page, index>>
\* each one is given by set_indexes.
Fields ==
    {<<p - 1, i>> : p \in 1..Len(pages), i \in 0..(max_candidates - 1)}
        \cap UNION {{<<p - 1, i>> : i \in 0..(pages[p][2] - pages[p][1] - 1)} :
                      p \in 1..Len(pages)}

\* The pointer enters a field of the shown popup.
UpdatePopup ==
    /\ ~crashed
    /\ popup_visible
    /\ \E f \in Fields :
        /\ ev' = Event("UpdatePopup", "_")
        /\ page' = f[1]
        /\ index' = f[2]
        /\ UNCHANGED <<state, candidates, current_preedit, cursor_position,
                       preedit_len, pages, popup, passthrough_mode,
                       shift_armed, held>>
        /\ Return(chewing, <<>>, <<>>)

\* The pointer is released over a field of the shown popup.
ClosePopup ==
    /\ ~crashed
    /\ popup_visible
    /\ Fields # {}
    /\ ev' = Event("ClosePopup", "_")
    /\ UNCHANGED <<shift_armed, held>>
    /\ select_and_close(page * max_candidates + index)

Next ==
    \/ Activate
    \/ Deactivate
    \/ KeyPressedPreEdit
    \/ KeyPressedPopup
    \/ KeyPressedWaitingForDone
    \/ KeyPressedPassThrough
    \/ KeyReleased
    \/ Modifiers
    \/ Done
    \/ UpdatePopup
    \/ ClosePopup

Spec == Init /\ [][Next]_vars

-----------------------------------------------------------------------------
(* The popup on a list of any length: the session as open_popup and the    *)
(* Done that follows leave it when the editor offers n candidates, and the *)
(* keys and pointer messages of State::Popup from there.                   *)

PopupOpened(n) ==
    /\ page = 0
    /\ index = 0
    /\ chewing = [display |-> <<3>>, cursor |-> 1, syllable_buffer |-> 0,
                  selecting |-> TRUE, ncand |-> n]
    /\ state = "Popup"
    /\ candidates = n
    /\ current_preedit = <<3>>
    /\ cursor_position = 3
    /\ preedit_len = 3
    /\ pages = FirstPage(n)
    /\ popup = TRUE
    /\ passthrough_mode = FALSE
    /\ ev = [type |-> "Done", arm |-> "_", from |-> "WaitingForDone"]
    /\ actions = <<ShowPopup>>
    /\ calls = <<>>
    /\ crashed = FALSE
    /\ popup_visible = TRUE
    /\ shift_armed = FALSE
    /\ held = NotFollowed

InitPaging == \E n \in 1..MaxList : PopupOpened(n)

NextPaging ==
    \/ KeyPressedPopup
    \/ UpdatePopup

SpecPaging == InitPaging /\ [][NextPaging]_vars

-----------------------------------------------------------------------------
(* The pre-edit over texts of any UTF-8 widths: the session in State::PreEdit *)
(* over a text of the editor whose last preedit_string returned, and the   *)
(* keys of State::PreEdit and their Done from there.                       *)

\* The byte widths of a UTF-8 code point.
Utf8Widths == 1..4

\* The texts of 1..MaxText code points.
TextsUpTo(n) == UNION {[1..k -> Utf8Widths] : k \in 1..n}

PreEditOver(d, c) ==
    LET e == [display |-> d, cursor |-> c, syllable_buffer |-> 0,
              selecting |-> FALSE, ncand |-> 0]
    IN  /\ ~PreeditPanics(e)
        /\ page = 0
        /\ index = 0
        /\ chewing = e
        /\ state = "PreEdit"
        /\ candidates = 0
        /\ current_preedit = Preedit(e)
        /\ cursor_position = c * 3
        /\ preedit_len = ByteLen(Preedit(e))
        /\ pages = <<>>
        /\ popup = FALSE
        /\ passthrough_mode = FALSE
        /\ ev = [type |-> "Done", arm |-> "_", from |-> "WaitingForDone"]
        /\ actions = <<>>
        /\ calls = <<>>
        /\ crashed = FALSE
        /\ popup_visible = FALSE
        /\ shift_armed = FALSE
        /\ held = NotFollowed

InitWidths ==
    \E d \in TextsUpTo(MaxText) : \E c \in 0..Len(d) : PreEditOver(d, c)

NextWidths ==
    \/ KeyPressedPreEdit
    \/ Done

SpecWidths == InitWidths /\ [][NextWidths]_vars

-----------------------------------------------------------------------------
(* The keys as the host sees them: the new session with one key followed,  *)
(* whose release is delivered only while it is down, and the messages of   *)
(* the keyboard and of the input-method protocol.                          *)

\* The keys followed: a modifier, a key with text and a key without.
FollowedKeys == {"Shift", "Enter", "Other"}

InitKeys ==
    /\ page = 0
    /\ index = 0
    /\ chewing = EmptyEditor
    /\ state = "PassThrough"
    /\ candidates = 0
    /\ current_preedit = <<>>
    /\ cursor_position = 0
    /\ preedit_len = 0
    /\ pages = <<>>
    /\ popup = FALSE
    /\ passthrough_mode = FALSE
    /\ ev = [type |-> "New", arm |-> "_", from |-> "PassThrough"]
    /\ actions = <<>>
    /\ calls = <<>>
    /\ crashed = FALSE
    /\ popup_visible = FALSE
    /\ shift_armed = FALSE
    /\ \E key \in FollowedKeys :
           held = [key |-> key, down |-> FALSE, host |-> FALSE]

NextKeys ==
    \/ Activate
    \/ Deactivate
    \/ KeyPressedPreEdit
    \/ KeyPressedWaitingForDone
    \/ KeyPressedPassThrough
    \/ KeyReleased
    \/ Modifiers
    \/ Done

SpecKeys == InitKeys /\ [][NextKeys]_vars

-----------------------------------------------------------------------------
(* The popup under the pointer: the list of any length of InitPaging, the  *)
(* keys of State::Popup, and the pointer entering and pressing the fields  *)
(* InputMethod::view draws.                                                *)

\* view: the flat index of the candidate drawn in the field of window
\* column w, row r: self.pages.iter().enumerate() gives the column, the
\* list's enumerate() the row.
DisplayedAt(w, r) == pages[w + 1][1] + r

\* view: the columns whose digits are drawn white, `page != self.page`
\* being false for them, page the column's position in self.pages.
Highlighted == {w \in 0..(Len(pages) - 1) : w = page}

NextPointer ==
    \/ KeyPressedPopup
    \/ UpdatePopup
    \/ ClosePopup

SpecPointer == InitPaging /\ [][NextPointer]_vars

-----------------------------------------------------------------------------
(* The session under a host that answers: the zwp_input_method_v2 `done`   *)
(* event follows every commit, so a Done that would change the session is  *)
(* not withheld for ever.                                                  *)

SpecLive == Init /\ [][Next]_vars /\ WF_vars(Done)

-----------------------------------------------------------------------------
(* Claims *)

IsKeyEvent(e) == e.type \in {"KeyPressed", "KeyReleased"}

\* C1: while the state is WaitingForDone every key press and key release is
\* dropped: it changes no field of the session, calls nothing of the editor
\* and returns no action; and the state leaves WaitingForDone on no message
\* other than Done, Activate and Deactivate.
C1_KeysDroppedWhileWaiting ==
    [][/\ (state = "WaitingForDone" /\ IsKeyEvent(ev'))
            => /\ UNCHANGED <<session, chewing>>
               /\ actions' = <<>>
               /\ calls' = <<>>
               /\ ~crashed'
       /\ (state = "WaitingForDone" /\ state' # "WaitingForDone")
            => ev'.type \in {"Done", "Activate", "Deactivate"}]_vars

\* A key press was dropped while a pre-edit update awaited its Done.
C1_Witness ==
    /\ ev.type = "KeyPressed"
    /\ ev.from = "WaitingForDone"
    /\ state = "WaitingForDone"
    /\ current_preedit # <<>>

\* C2: a Done received in WaitingForDone leads to Popup with ShowPopup when
\* the popup flag is set, else to PreEdit when the editor's pre-edit is not
\* empty at that moment, else to PassThrough; nothing else.
C2_DoneOutcome ==
    [][(ev'.type = "Done" /\ state = "WaitingForDone")
          => IF popup
             THEN state' = "Popup" /\ actions' = <<ShowPopup>>
             ELSE IF Preedit(chewing) # <<>>
             THEN state' = "PreEdit" /\ actions' = <<>>
             ELSE state' = "PassThrough" /\ actions' = <<>>]_vars

\* A Done acknowledged a pre-edit update and the session is in PreEdit.
C2_Witness ==
    /\ ev.type = "Done"
    /\ ev.from = "WaitingForDone"
    /\ state = "PreEdit"
    /\ Preedit(chewing) # <<>>

\* C3: the state is never Popup with an empty candidate list.
C3_PopupNeverEmpty == state = "Popup" => candidates > 0

\* The length of the current page,
\* candidates[page * capacity .. min((page + 1) * capacity, len(candidates))].
CurrentPageLen ==
    LET lo == page * max_candidates
        hi == Min((page + 1) * max_candidates, candidates)
    IN  IF hi > lo THEN hi - lo ELSE 0

\* C4: in state Popup, 0 <= index < length of the current page (stated for
\* a list that is not empty; the empty list is C3).
C4_IndexWithinPage ==
    (state = "Popup" /\ candidates > 0) => index < CurrentPageLen

\* C5: no sequence of messages makes a handler panic.
C5_NoCrash == ~crashed

\* The handler's first editor call was a select of a flat index past the
\* end of the list the editor offers, which the editor rejects.
SelectRejected ==
    /\ calls' # <<>>
    /\ calls'[1][1] = "select"
    /\ chewing.selecting
    /\ calls'[1][2] >= chewing.ncand
    /\ ~SelectOk(chewing, calls'[1][2])

\* C6: when the editor rejects a select made in state Popup, the session is
\* unchanged (state Popup, popup flag, page, index) and no action is
\* returned.
C6_RejectedSelectChangesNothing ==
    [][(state = "Popup" /\ SelectRejected)
          => UNCHANGED session /\ actions' = <<>>]_vars

C8_LatchChangesOnShiftOnly ==
    [][passthrough_mode' # passthrough_mode => ev'.arm = "Shift"]_vars

\* C9: in PassThrough, a message of the Shift key flips passthrough_mode
\* exactly when it is the release of Shift and no other key was pressed
\* since Shift went down; a press of Shift does not flip it.
C9_LatchFlipsOnCleanShiftRelease ==
    [][(ev'.arm = "Shift" /\ state = "PassThrough")
          => ((passthrough_mode' # passthrough_mode)
                <=> (ev'.type = "KeyReleased" /\ shift_armed))]_vars

\* C10: the session starts in PassThrough, and Deactivate, in any state,
\* sends Escape to the editor, leaves the state at PassThrough and asks for
\* the popup to be hidden.
C10_Deactivate ==
    /\ state = "PassThrough"
    /\ [][ev'.type = "Deactivate"
            => /\ calls' = <<CallKey("Esc")>>
               /\ chewing' \in EngineKey(chewing, "Esc")
               /\ state' = "PassThrough"
               /\ actions' = <<HidePopup>>
               /\ ~popup_visible']_vars

\* Deactivate arrived while the popup was open.
C10_Witness ==
    /\ ev.type = "Deactivate"
    /\ ev.from = "Popup"
    /\ state = "PassThrough"

\* C11: in the Command a handler returns, every SetPreeditString is directly
\* followed by a Commit of the same Command, and a HidePopup of that Command
\* comes after that Commit.
C11_SetPreeditThenCommit ==
    \A k \in 1..Len(actions) :
        actions[k][1] = "SetPreeditString"
            => /\ k < Len(actions)
               /\ actions[k + 1] = Commit
               /\ \A h \in 1..Len(actions) :
                      actions[h] = HidePopup => h > k + 1

\* Escape closed the popup: pre-edit, Commit, then HidePopup.
C11_Witness ==
    /\ ev.type = "KeyPressed"
    /\ ev.arm = "Escape"
    /\ ev.from = "Popup"
    /\ Len(actions) = 3
    /\ actions[1][1] = "SetPreeditString"
    /\ actions[3] = HidePopup

\* A Command holds a ShowPopup.
EmitsShowPopup(acts) == \E k \in 1..Len(acts) : acts[k] = ShowPopup

\* C12: a Done received in WaitingForDone with the popup flag set moves to
\* Popup and returns exactly one ShowPopup; no other message returns a
\* ShowPopup; and a Done received in Popup, PreEdit or PassThrough returns
\* no action and changes nothing.
C12_OneShowPopupPerOpening ==
    [][/\ (ev'.type = "Done" /\ state = "WaitingForDone" /\ popup)
            => state' = "Popup" /\ actions' = <<ShowPopup>>
       /\ EmitsShowPopup(actions')
            => ev'.type = "Done" /\ state = "WaitingForDone" /\ popup
       /\ (ev'.type = "Done" /\ state # "WaitingForDone")
            => /\ UNCHANGED <<session, chewing>>
               /\ actions' = <<>>
               /\ calls' = <<>>]_vars

\* A second Done arrived while the popup was open, and showed nothing.
C12_Witness ==
    /\ ev.type = "Done"
    /\ ev.from = "Popup"
    /\ state = "Popup"
    /\ popup
    /\ actions = <<>>

\* The digit keys 1..9 by their value.
DigitName == <<"1", "2", "3", "4", "5", "6", "7", "8", "9">>

\* The slot of the page a selecting key stands for: d - 1 for digit d in
\* 1..9, 9 for digit 0, the in-page index for Enter.
SelectedSlot(arm) ==
    IF arm = "Enter" THEN index
    ELSE IF arm = "0" THEN 9
    ELSE (CHOOSE d \in 1..9 : DigitName[d] = arm) - 1

\* C13: in Popup on page p, a digit key or Enter passes p * max_candidates
\* + slot to the editor's select; when that value is below the length of
\* the candidate list, it is the flat index of the slot's candidate in
\* page p of the list; and page and index are left as they were.
C13_SelectIndex ==
    [][(/\ ev'.type = "KeyPressed"
        /\ state = "Popup"
        /\ ev'.arm \in Digits \cup {"Enter"}
        /\ ~crashed')
          => LET n == page * max_candidates + SelectedSlot(ev'.arm) IN
             /\ calls'[1][1] = "select"
             /\ calls'[1][2] = n
             /\ n < candidates
                  => /\ PageSlice(page)[1] + SelectedSlot(ev'.arm) = n
                     /\ n < PageSlice(page)[2]
             /\ page' = page
             /\ index' = index]_vars

\* Key "0" on the second page selected the flat index 19.
C13_Witness ==
    /\ ev.type = "KeyPressed"
    /\ ev.arm = "0"
    /\ ev.from = "Popup"
    /\ page = 1
    /\ calls # <<>>
    /\ calls[1][1] = "select"
    /\ calls[1][2] = 19
    /\ candidates > 19

\* C14: a digit or Enter selection in Popup that the editor accepts moves to
\* WaitingForDone with the popup flag cleared and returns SetPreeditString,
\* Commit and HidePopup; while that update waits the flag stays clear, and
\* the Done that ends the wait leads to PreEdit or PassThrough, not Popup.
C14_AcceptedSelection ==
    [][/\ (/\ ev'.type = "KeyPressed"
           /\ state = "Popup"
           /\ ev'.arm \in Digits \cup {"Enter"}
           /\ SelectOk(chewing,
                       page * max_candidates + SelectedSlot(ev'.arm)))
            => /\ chewing' = LeaveSelecting(chewing)
               /\ state' = "WaitingForDone"
               /\ ~popup'
               /\ actions' = <<SetPreeditString(Preedit(chewing'),
                                                chewing'.cursor * 3),
                               Commit, HidePopup>>
       /\ (state = "WaitingForDone" /\ ~popup)
            => /\ state' = "WaitingForDone" => ~popup'
               /\ ev'.type = "Done"
                    => state' \in {"PreEdit", "PassThrough"}
                       /\ ~EmitsShowPopup(actions')]_vars

\* The editor accepted the selection of key "2"; the session waits for Done
\* with the popup flag clear.
C14_Witness ==
    /\ ev.type = "KeyPressed"
    /\ ev.arm = "2"
    /\ ev.from = "Popup"
    /\ calls # <<>>
    /\ calls[1] = <<"select", page * max_candidates + 1, TRUE>>
    /\ state = "WaitingForDone"
    /\ ~popup
    /\ ~chewing.selecting

\* The arms of State::PreEdit that edit: the control keys other than Enter
\* and ArrowDown, and the keys that carry text.
EditingArms ==
    {"Backspace", "Space", "ShiftSpace", "Escape", "Delete", "ArrowLeft",
     "ArrowRight", "ArrowUp", "Tab", "utf8"}

\* The key codes the session sends to the editor.
KeyCodes ==
    {"Ascii", "Space", "ShiftSpace", "Backspace", "Del", "Left", "Right",
     "Esc", "Enter", "Down", "Up", "Tab"}

\* The number of editor operations (key events and selections) in a log.
EngineOps(cls) ==
    Cardinality({k \in 1..Len(cls) :
                   cls[k][1] \in {"process_keyevent", "select"}})

C16_EnterIsFullCommit ==
    [][(/\ ev'.type = "KeyPressed"
        /\ state = "PreEdit"
        /\ ev'.arm = "Enter")
          => /\ actions' = <<CommitString(Preedit(chewing)), Commit>>
             /\ state' = "PassThrough"
             /\ current_preedit' = <<>>
             /\ ~popup'
             /\ candidates' = 0
             /\ pages' = <<>>
             /\ page' = 0
             /\ index' = 0]_vars

\* C17: ArrowDown in PreEdit sends Down to the editor and takes its
\* candidates, sets pages to the one page candidates[0 .. min(max_candidates,
\* len)], page and index to 0 and the popup flag, returns SetPreeditString
\* followed by Commit and moves to WaitingForDone; no ShowPopup is returned
\* and the popup is not shown.
C17_OpenPopup ==
    [][(/\ ev'.type = "KeyPressed"
        /\ state = "PreEdit"
        /\ ev'.arm = "ArrowDown")
          => /\ EngineOps(calls') = 1
             /\ \E k \in 1..Len(calls') : calls'[k] = CallKey("Down")
             /\ chewing' \in EngineKey(chewing, "Down")
             /\ candidates' = AllCandidates(chewing')
             /\ pages' = << <<0, Min(max_candidates, candidates')>> >>
             /\ page' = 0
             /\ index' = 0
             /\ popup'
             /\ Len(actions') = 2
             /\ actions'[1][1] = "SetPreeditString"
             /\ actions'[2] = Commit
             /\ state' = "WaitingForDone"
             /\ ~popup_visible']_vars

\* ArrowDown in PreEdit took the longest list: the first page holds
\* max_candidates of them and the popup awaits Done, not yet shown.
C17_Witness ==
    /\ ev.type = "KeyPressed"
    /\ ev.arm = "ArrowDown"
    /\ ev.from = "PreEdit"
    /\ state = "WaitingForDone"
    /\ popup
    /\ ~popup_visible
    /\ candidates = MaxCand
    /\ pages = << <<0, max_candidates>> >>
    /\ page = 0
    /\ index = 0

\* ArrowDown, ArrowUp, ArrowLeft or ArrowRight is pressed in Popup while the
\* editor is selecting and index is a position of the current page.
MoveInPage(arm) ==
    /\ ev'.type = "KeyPressed"
    /\ ev'.arm = arm
    /\ state = "Popup"
    /\ chewing.selecting
    /\ candidates = chewing.ncand
    /\ index < CurrentPageLen

\* C18: ArrowDown in Popup at the last position of the current page (index
\* = length of the page - 1, a partial last page included) sends Down to the
\* editor, takes the new candidates and the first page and sets page and
\* index to 0; at an earlier position it only adds 1 to index.
C18_MoveDown ==
    [][MoveInPage("ArrowDown")
          => IF index = CurrentPageLen - 1
             THEN /\ calls' = <<CallKey("Down"), CallAllCandidates>>
                  /\ chewing' \in EngineKey(chewing, "Down")
                  /\ candidates' = AllCandidates(chewing')
                  /\ pages' = << <<0, Min(max_candidates, candidates')>> >>
                  /\ page' = 0
                  /\ index' = 0
             ELSE /\ index' = index + 1
                  /\ UNCHANGED <<page, candidates, pages, chewing>>
                  /\ calls' = <<>>]_vars

\* The number of pages of the candidate list.
NumPages == (candidates + max_candidates - 1) \div max_candidates

\* The length of page p of the candidate list.
PageLen(p) ==
    LET lo == p * max_candidates
        hi == Min((p + 1) * max_candidates, candidates)
    IN  IF hi > lo THEN hi - lo ELSE 0

\* C19: ArrowRight in Popup on the last page leaves page as it is; page
\* never becomes >= the number of pages; and when the page it lands on is
\* shorter than index + 1, index becomes that page's last position.
C19_MoveRight ==
    [][MoveInPage("ArrowRight")
          => /\ page' < NumPages
             /\ page = NumPages - 1 => page' = page
             /\ index' = Min(index, PageLen(page') - 1)]_vars

\* C20: ArrowUp at index 0 and ArrowLeft at page 0 in Popup change nothing
\* of the session or the editor and return no action, so repeating them
\* changes nothing either.
C20_SaturatingMoves ==
    [][(/\ ev'.type = "KeyPressed"
        /\ state = "Popup"
        /\ \/ ev'.arm = "ArrowUp" /\ index = 0
           \/ ev'.arm = "ArrowLeft" /\ page = 0)
          => /\ UNCHANGED <<session, chewing>>
             /\ actions' = <<>>
             /\ calls' = <<>>]_vars

\* ArrowLeft was pressed on the first page of a popup that had not been
\* paged yet (one page in the window, so page was 0 before the key).
C20_Witness ==
    /\ ev.type = "KeyPressed"
    /\ ev.arm = "ArrowLeft"
    /\ ev.from = "Popup"
    /\ state = "Popup"
    /\ Len(pages) = 1
    /\ page = 0
    /\ candidates > 0

\* The list of Scenario A: 23 candidates, offered by the editor and open in
\* the popup.
ScenarioA ==
    /\ state = "Popup"
    /\ candidates = 23
    /\ chewing.selecting
    /\ chewing.ncand = 23

\* C21: with 23 candidates the pages have lengths 10, 10 and 3; ArrowRight
\* from page 0 and again from page 1 lands on page 2, whose visible page
\* has length 3; on page 2, ArrowDown from index 0 and from index 1 adds 1
\* to index, and index is never 3 or more while page 2 is current.
C21_ScenarioA ==
    /\ ScenarioA => <<PageLen(0), PageLen(1), PageLen(2)>> = <<10, 10, 3>>
    /\ [][/\ (ScenarioA /\ ev'.type = "KeyPressed" /\ ev'.arm = "ArrowRight"
                /\ page < 2)
               => /\ page' = page + 1
                  /\ Len(pages') = 3
                  /\ pages'[3][2] - pages'[3][1] = 3
          /\ (ScenarioA /\ ev'.type = "KeyPressed" /\ ev'.arm = "ArrowDown"
                /\ page = 2 /\ index < 2)
               => index' = index + 1 /\ page' = 2
          /\ (ScenarioA /\ page = 2 /\ index <= 2 /\ page' = 2)
               => index' <= 2]_vars

\* C22: for a list of L >= 1 candidates the current page is one of the
\* pages 0 .. ceil(L / max_candidates) - 1, page j being candidates[j * K
\* .. min((j + 1) * K, L)], so that the last page has L - (ceil(L / K) - 1)
\* * K candidates and no page is empty; and ArrowRight on any page but the
\* last moves to the next page, so every page is reached from page 0.
C22_PagesOfTheList ==
    /\ (state = "Popup" /\ candidates >= 1)
          => /\ page < NumPages
             /\ PageLen(NumPages - 1)
                  = candidates - (NumPages - 1) * max_candidates
             /\ \A j \in 0..(NumPages - 1) :
                    /\ PageSlice(j) = <<j * max_candidates,
                                        j * max_candidates + PageLen(j)>>
                    /\ PageLen(j) >= 1
    /\ [][(/\ ev'.type = "KeyPressed"
           /\ ev'.arm = "ArrowRight"
           /\ state = "Popup"
           /\ chewing.selecting
           /\ candidates = chewing.ncand
           /\ candidates >= 1)
            => page' = IF page < NumPages - 1 THEN page + 1 ELSE page]_vars

\* ArrowRight reached the last page of the longest list.
C22_Witness ==
    /\ ev.type = "KeyPressed"
    /\ ev.arm = "ArrowRight"
    /\ state = "Popup"
    /\ candidates = MaxList
    /\ chewing.ncand = MaxList
    /\ NumPages > max_pages
    /\ page = NumPages - 1

\* C23: the visible window holds at most max_pages pages, each a slice of
\* candidates of length 1 .. max_candidates that refers to no index >=
\* len(candidates).
C23_WindowWellFormed ==
    /\ Len(pages) <= max_pages
    /\ \A k \in 1..Len(pages) :
           /\ pages[k][2] - pages[k][1] >= 1
           /\ pages[k][2] - pages[k][1] <= max_candidates
           /\ pages[k][1] >= 0
           /\ pages[k][2] <= candidates

\* C24: after ArrowLeft or ArrowRight in Popup the visible window is a run
\* of at most max_pages consecutive pages of the list, and the current page
\* is one of them.
C24_WindowFollowsPage ==
    [][(/\ ev'.type = "KeyPressed"
        /\ ev'.arm \in {"ArrowLeft", "ArrowRight"}
        /\ state = "Popup"
        /\ chewing.selecting
        /\ candidates = chewing.ncand
        /\ candidates >= 1)
          => /\ Len(pages') <= max_pages
             /\ \A k \in 1..(Len(pages') - 1) : pages'[k][2] = pages'[k + 1][1]
             /\ \E k \in 1..Len(pages') :
                    pages'[k] = <<page' * max_candidates,
                                  Min((page' + 1) * max_candidates,
                                      candidates')>>]_vars

\* C25: the cursor of every SetPreeditString returned (cursor_begin =
\* cursor_end) is the byte offset of the editor's code-point cursor c in the
\* pre-edit: the sum of the byte widths of its first c code points, which
\* is never past the end of the string.
C25_CursorIsByteOffset ==
    \A k \in 1..Len(actions) :
        actions[k][1] = "SetPreeditString"
            => /\ actions[k][3]
                    = ByteLen(SubSeq(chewing.display, 1, chewing.cursor))
               /\ actions[k][4] = actions[k][3]
               /\ actions[k][3] <= ByteLen(actions[k][2])

\* C26: an arrow key handled in Popup leaves the state, the popup flag, the
\* cached pre-edit, its cursor and the latch as they were and returns no
\* action; candidates and the editor change only where ArrowDown asks the
\* editor for the next batch.
C26_ArrowsOnlyNavigate ==
    [][(/\ ev'.type = "KeyPressed"
        /\ state = "Popup"
        /\ ev'.arm \in {"ArrowUp", "ArrowDown", "ArrowLeft", "ArrowRight"}
        /\ ~crashed')
          => /\ UNCHANGED <<state, popup, current_preedit, cursor_position,
                            preedit_len, passthrough_mode, popup_visible>>
             /\ actions' = <<>>
             /\ (candidates' # candidates \/ chewing' # chewing)
                  => /\ ev'.arm = "ArrowDown"
                     /\ calls' = <<CallKey("Down"), CallAllCandidates>>]_vars

\* ArrowDown on the last candidate took the next batch from the editor, the
\* longest list, and the popup stayed open.
C26_Witness ==
    /\ ev.type = "KeyPressed"
    /\ ev.arm = "ArrowDown"
    /\ ev.from = "Popup"
    /\ calls = <<CallKey("Down"), CallAllCandidates>>
    /\ state = "Popup"
    /\ popup
    /\ candidates = MaxCand
    /\ actions = <<>>

\* C27: the popup flag is false whenever the state is PassThrough or
\* PreEdit, so that a Done that acknowledges a pre-edit update does not
\* open the popup.
C27_NoPopupFlagOutsidePopup ==
    state \in {"PassThrough", "PreEdit"} => ~popup

\* C28: the popup is visible to the host (ShowPopup was the last of
\* ShowPopup and HidePopup returned) only while the state is Popup, every
\* message that leaves Popup returning HidePopup.
C28_VisibleOnlyInPopup ==
    /\ popup_visible => state = "Popup"
    /\ [][(state = "Popup" /\ state' # "Popup")
            => \E k \in 1..Len(actions') : actions'[k] = HidePopup]_vars

\* The release of the followed key is handled (it was down).
FollowedKeyReleased == held.down /\ ~held'.down

\* C29: a KeyReleased is forwarded to the host only for a key the host
\* holds: one whose KeyPressed was forwarded with no forwarded release of
\* it since.
C29_NoOrphanRelease ==
    [][(/\ FollowedKeyReleased
        /\ \E i \in 1..Len(actions') : actions'[i] = VKKeyReleased(held.key))
          => held.host]_vars

\* C30: when the release of a key the host holds is delivered, it is
\* forwarded to the host, whatever the state has become since the press.
C30_NoStuckKey ==
    [][(FollowedKeyReleased /\ held.host)
          => \E i \in 1..Len(actions') :
                 actions'[i] = VKKeyReleased(held.key)]_vars

\* C31: a pointer message (UpdatePopup, ClosePopup) handled while the state
\* is not State::Popup changes no field of the session, leaves the editor
\* as it was, calls no editor operation and returns no action.
C31_PointerOnlyInPopup ==
    [][(/\ ev'.type \in {"UpdatePopup", "ClosePopup"}
        /\ ev'.from # "Popup")
          => /\ session' = session
             /\ chewing' = chewing
             /\ calls' = <<>>
             /\ actions' = <<>>]_vars

\* C32: the pointer picks what is displayed, and the keyboard highlights
\* the column of the current page. When the pointer has entered a field and
\* then presses it, the editor's select is given the flat index of the
\* candidate drawn in that field; and after a key of State::Popup the
\* column drawn highlighted shows the page `page` of the list.
C32_ClickSelectsDisplayed ==
    [][(/\ ev.type = "UpdatePopup"
        /\ ev'.type = "ClosePopup"
        /\ ~crashed')
          => /\ Len(calls') > 0
             /\ calls'[1][1] = "select"
             /\ calls'[1][2] = DisplayedAt(page, index)]_vars

C32_HighlightIsCurrentPage ==
    (state = "Popup" /\ ev.type = "KeyPressed" /\ ~crashed)
        => \E w \in Highlighted : pages[w + 1] = PageSlice(page)

C32_PointerPicksDisplayed ==
    /\ C32_ClickSelectsDisplayed
    /\ []C32_HighlightIsCurrentPage

\* C33: under a host that does not withhold Done, a session in
\* State::WaitingForDone eventually is in State::PreEdit, State::Popup or
\* State::PassThrough, running, where key presses are handled again; and
\* no Done received in State::WaitingForDone leaves the session there.
C33_WaitingEnds ==
    /\ (state = "WaitingForDone")
          ~> (state \in {"PreEdit", "Popup", "PassThrough"} /\ ~crashed)
    /\ [][(ev'.type = "Done" /\ state = "WaitingForDone")
             => state' \in {"PreEdit", "Popup", "PassThrough"}]_vars

\* A Done has ended a wait in State::PreEdit and the key pressed next was
\* given to the editor.
C33_Witness ==
    /\ ev.type = "KeyPressed"
    /\ ev.from = "PreEdit"
    /\ state = "WaitingForDone"
    /\ \E i \in 1..Len(calls) : calls[i][1] = "process_keyevent"

\* The message handled was a key press taken by one of `arms`.
KeyPressOf(e, arms) == e.type = "KeyPressed" /\ e.arm \in arms

\* C34: the state changes only along these edges, each by its message:
\* PassThrough to WaitingForDone by a key with text; PreEdit to
\* WaitingForDone by a key and to PassThrough by Enter; WaitingForDone to
\* Popup, PreEdit or PassThrough by Done; Popup to WaitingForDone by a digit,
\* Enter or ClosePopup, and to PreEdit by Escape, which sends Esc to the
\* editor and returns HidePopup; any state to PassThrough by Activate or
\* Deactivate.
C34_ModeEdges ==
    [][state' # state =>
        \/ /\ ev'.type \in {"Activate", "Deactivate"}
           /\ state' = "PassThrough"
        \/ /\ state = "PassThrough"
           /\ state' = "WaitingForDone"
           /\ KeyPressOf(ev', {"utf8"})
        \/ /\ state = "PreEdit"
           /\ state' = "WaitingForDone"
           /\ ev'.type = "KeyPressed"
        \/ /\ state = "PreEdit"
           /\ state' = "PassThrough"
           /\ KeyPressOf(ev', {"Enter"})
        \/ /\ state = "WaitingForDone"
           /\ state' \in {"Popup", "PreEdit", "PassThrough"}
           /\ ev'.type = "Done"
        \/ /\ state = "Popup"
           /\ state' = "WaitingForDone"
           /\ KeyPressOf(ev', Digits \cup {"Enter"}) \/ ev'.type = "ClosePopup"
        \/ /\ state = "Popup"
           /\ state' = "PreEdit"
           /\ KeyPressOf(ev', {"Escape"})
           /\ \E i \in 1..Len(calls') : calls'[i] = CallKey("Esc")
           /\ \E i \in 1..Len(actions') : actions'[i] = HidePopup]_vars

====
